---- MODULE Spec2Model ----
(***************************************************************************)
(* Model of caproto/ioc_examples/complete_mirror.py: the mirror IOC that   *)
(* resolves a set of remote PVs (make_mirror / make_pvproperty), serves a  *)
(* local pvproperty per remote PV, keeps it up to date from a subscription *)
(* (_callback) and forwards client writes to the remote PV (putter).       *)
(***************************************************************************)
EXTENDS Integers, Sequences, FiniteSets, TLC

\* ------------------------------------------------------------------ bounds
\* The operations of the outside world in one run: client write requests and
\* changes of a remote PV by somebody else.
MaxOps == 2

\* --------------------------------------------------------------- universe
Order   == <<"pv1", "pv2">>            \* config.items() iteration order
Entries == {Order[i] : i \in 1..Len(Order)}
Addrs   == {5064, 5065}                \* remote server addresses (port of the IOC)
Writes  == 1..MaxOps                   \* server-side write tasks, in order of arrival
Contexts == Addrs \cup Writes          \* asyncio task contexts (contextvars)
\* enum_strings of an enumerated remote PV.  The labels "OFF" and "ON" are
\* written 10 and 11: a label is never equal to a raw code (0, 1, ...), and the
\* two can still be compared.
Labels  == <<10, 11>>
\* Raw values of a remote PV: the codes that have a label and one that has none.
Values  == 0..Len(Labels)
LocalTime == -1                        \* a timestamp taken from the local clock
NoEntry == "none"
Range(s) == {s[i] : i \in 1..Len(s)}

VARIABLES
    config,            \* [Entries -> Addrs]: pv_str -> address
    force_read_only,   \* argument of make_mirror
    remote,            \* [Entries -> [enum, access, val, ts]]: the remote PVs
    rclock,            \* remote clock: last timestamp handed out
    ops,               \* operations of the outside world so far
    mainPc,            \* make_mirror: "resolve" | "finally" | "served" | "failed"
    idx,               \* position in Order of the entry being resolved
    rpc,               \* make_pvproperty: "make_channel" | "read" | "build" | "finally"
    exc,               \* an exception is propagating out of make_pvproperty
    chan,              \* [Entries -> state of the transient sync channel]
    sockets,           \* csc.sockets (keys: circuits, by address)
    global_circuits,   \* csc.global_circuits
    props,             \* [Entries -> pvproperty built so far]
    served,            \* entries of the Mirror class handed to run()
    local,             \* [Entries -> [val, ts]]: the local PV store
    phase,             \* [Entries -> subscription bridge state]
    pvs,               \* MirrorFrame._pvs (keys)
    subs,              \* MirrorFrame._subs (by entry)
    callbacks,         \* MirrorFrame._callbacks (by entry)
    inbox,             \* [Addrs -> Seq]: EventAddResponses in flight per circuit
    cb,                \* [Addrs -> callback coroutine state of the circuit task]
    internal_process,  \* [Contexts -> BOOLEAN]: the ContextVar, per task context
    wr,                \* [Writes -> state of a client write request]
    cbRemoteWrites,    \* history: remote writes issued from inside a callback
    owed,              \* history: echoes of forwarded writes not yet stored locally
    lastBy             \* history: who last stored into local[e]

asmVars == <<mainPc, idx, rpc, exc, chan, sockets, global_circuits, props, served>>
envVars == <<config, force_read_only>>
clkVars == <<remote, rclock, ops>>
runVars == <<phase, pvs, subs, callbacks, inbox, cb, internal_process, wr,
             cbRemoteWrites, owed, lastBy>>
vars == <<config, force_read_only, remote, rclock, ops, mainPc, idx, rpc, exc, chan,
          sockets, global_circuits, props, served, local, phase, pvs, subs,
          callbacks, inbox, cb, internal_process, wr, cbRemoteWrites, owed,
          lastBy>>

NoProp == [built |-> FALSE, read_only |-> FALSE, is_enum |-> FALSE,
           enum_strings |-> <<>>]
IdleCb == [pc |-> "idle", e |-> NoEntry, val |-> 0, ts |-> 0, exit |-> "none"]
NoStore == [val |-> 0, ts |-> 0]
\* A write task.  pc, e, v: its position, its PV and the value the client
\* wrote.  The other fields are history: sent, the remote writes it issued;
\* pre, the local store when it began; expect, pre overwritten by the updates
\* the callbacks stored since; echoTs, the timestamp the remote gave the
\* written value; outcome of pv.write; sawGuard, whether its putter saw the
\* ContextVar set; midApply, the PVs whose callback was suspended when its
\* putter ran.
IdleWr == [pc |-> "idle", e |-> NoEntry, v |-> 0, sent |-> <<>>,
           pre |-> NoStore, expect |-> NoStore, echoTs |-> 0,
           outcome |-> "none", sawGuard |-> FALSE, midApply |-> {}]

\* ---------------------------------------------------------- pure helpers
\* ChannelEnum: raw code -> label (enum_strings[code]); codes are 0-based.
HasLabel(strings, code) == code + 1 \in 1..Len(strings)
LabelOf(strings, code) == strings[code + 1]

\* instance.get_raw_value(value): label -> index in enum_strings (0-based).
get_raw_value(strings, label) ==
    (CHOOSE i \in 1..Len(strings) :
        /\ strings[i] = label
        /\ \A j \in 1..(i - 1) : strings[j] # label) - 1

\* The local representation of a remote raw value for a built pvproperty.
Conv(p, raw) == IF p.is_enum THEN LabelOf(p.enum_strings, raw) ELSE raw
Storable(p, raw) == p.is_enum => HasLabel(p.enum_strings, raw)

\* pvproperty(...) read_only argument, line 77.
ReadOnlyWrong(force, access) == force /\ ("WRITE" \notin access)
ReadOnlyFlag(force, access) == force \/ ("WRITE" \notin access)

\* The configurations: the first PV on the first server, the others anywhere.
Configs == {c \in [Entries -> Addrs] : c[Order[1]] = 5064}

\* The remote PVs: the first one enumerated, with or without WRITE access; the
\* others plain and writable; value 0 with timestamp 0 to start with.
RemotePVs ==
    {r \in [Entries -> [enum : BOOLEAN,
                        access : {{"READ"}, {"READ", "WRITE"}},
                        val : {0}, ts : {0}]] :
        \A e \in Entries :
            /\ r[e].enum <=> (e = Order[1])
            /\ (e # Order[1]) => ("WRITE" \in r[e].access)}

Init ==
    /\ config \in Configs
    /\ force_read_only \in BOOLEAN
    /\ remote \in RemotePVs
    /\ rclock = 0
    /\ ops = 0
    /\ mainPc = "resolve"
    /\ idx = 1
    /\ rpc = "make_channel"
    /\ exc = FALSE
    /\ chan = [e \in Entries |-> "NONE"]
    /\ sockets = {}
    /\ global_circuits = {}
    /\ props = [e \in Entries |-> NoProp]
    /\ served = {}
    /\ local = [e \in Entries |-> [val |-> 0, ts |-> LocalTime]]
    /\ phase = [e \in Entries |-> "UNSTARTED"]
    /\ pvs = {}
    /\ subs = {}
    /\ callbacks = {}
    /\ inbox = [a \in Addrs |-> <<>>]
    /\ cb = [a \in Addrs |-> IdleCb]
    /\ internal_process = [c \in Contexts |-> FALSE]
    /\ wr = [w \in Writes |-> IdleWr]
    /\ cbRemoteWrites = 0
    /\ owed = {}
    /\ lastBy = [e \in Entries |-> "init"]

\* ------------------------------------------------ assembly (make_mirror)
Resolving(e) == mainPc = "resolve" /\ idx <= Len(Order) /\ Order[idx] = e

\* line 52: csc.make_channel_from_address, outside the try block.  On failure
\* the exception leaves make_pvproperty at once (no finally of its own).
MakeChannelOk(e) ==
    /\ Resolving(e) /\ rpc = "make_channel"
    /\ chan' = [chan EXCEPT ![e] = "CONNECTED"]
    /\ sockets' = sockets \cup {config[e]}
    /\ global_circuits' = global_circuits \cup {config[e]}
    /\ rpc' = "read"
    /\ UNCHANGED <<envVars, clkVars, mainPc, idx, exc, props, served,
                   local, runVars>>

MakeChannelFail(e) ==
    /\ Resolving(e) /\ rpc = "make_channel"
    /\ \E leak \in BOOLEAN :
         /\ sockets' = IF leak THEN sockets \cup {config[e]} ELSE sockets
         /\ global_circuits' = IF leak THEN global_circuits \cup {config[e]}
                                       ELSE global_circuits
    /\ exc' = TRUE
    /\ mainPc' = "finally"
    /\ UNCHANGED <<envVars, clkVars, idx, rpc, chan, props, served,
                   local, runVars>>

\* lines 55-62: csc._read of the control form of the PV.
ReadOk(e) ==
    /\ Resolving(e) /\ rpc = "read"
    /\ rpc' = "build"
    /\ UNCHANGED <<envVars, clkVars, mainPc, idx, exc, chan, sockets,
                   global_circuits, props, served, local, runVars>>

ReadFail(e) ==
    /\ Resolving(e) /\ rpc = "read"
    /\ \E st \in {"CONNECTED", "DISCONNECTED"} :
         chan' = [chan EXCEPT ![e] = st]
    /\ exc' = TRUE
    /\ rpc' = "finally"
    /\ UNCHANGED <<envVars, clkVars, mainPc, idx, sockets,
                   global_circuits, props, served, local, runVars>>

\* lines 64-79: enum_strings and the pvproperty; the handlers of lines 81-120
\* are attached to it.
Build(e) ==
    /\ Resolving(e) /\ rpc = "build"
    /\ props' = [props EXCEPT ![e] =
          [built |-> TRUE,
           read_only |-> ReadOnlyFlag(force_read_only, remote[e].access),
           is_enum |-> remote[e].enum,
           enum_strings |-> IF remote[e].enum THEN Labels ELSE <<>>]]
    /\ local' = [local EXCEPT ![e] =
          [val |-> Conv(props'[e], remote[e].val), ts |-> LocalTime]]
    /\ rpc' = "finally"
    /\ UNCHANGED <<envVars, clkVars, mainPc, idx, exc, chan, sockets,
                   global_circuits, served, runVars>>

\* lines 121-125: clear the channel if it is still connected, then return the
\* pvproperty or let the exception propagate into make_mirror.
ClearChannel(st) == IF st = "CONNECTED" THEN "MUST_CLOSE" ELSE st

ResolveFinallyOnSuccessOnly(e) ==
    /\ Resolving(e) /\ rpc = "finally"
    /\ chan' = [chan EXCEPT ![e] = IF exc THEN @ ELSE ClearChannel(@)]
    /\ IF exc
         THEN /\ mainPc' = "finally"
              /\ UNCHANGED <<idx, rpc>>
         ELSE /\ idx' = idx + 1
              /\ rpc' = "make_channel"
              /\ UNCHANGED mainPc
    /\ UNCHANGED <<envVars, clkVars, exc, sockets, global_circuits,
                   props, served, local, runVars>>

ResolveFinally(e) ==
    /\ Resolving(e) /\ rpc = "finally"
    /\ chan' = [chan EXCEPT ![e] = ClearChannel(@)]
    /\ IF exc
         THEN /\ mainPc' = "finally"
              /\ UNCHANGED <<idx, rpc>>
         ELSE /\ idx' = idx + 1
              /\ rpc' = "make_channel"
              /\ UNCHANGED mainPc
    /\ UNCHANGED <<envVars, clkVars, exc, sockets, global_circuits,
                   props, served, local, runVars>>

\* lines 130-140: every entry resolved, the dict comprehension is complete and
\* type("Mirror", ...) is evaluated; the finally clause runs next.
MakeMirrorType ==
    /\ mainPc = "resolve" /\ idx > Len(Order)
    /\ mainPc' = "finally"
    /\ UNCHANGED <<envVars, clkVars, idx, rpc, exc, chan, sockets,
                   global_circuits, props, served, local, runVars>>

\* lines 141-146: close and forget every socket and circuit, then return the
\* class (whose pvdb is served by run()) or re-raise.
ServedSetBestEffort == {e \in Entries : props[e].built}
ServedSet == IF exc THEN {} ELSE {e \in Entries : props[e].built}

MakeMirrorFinally ==
    /\ mainPc = "finally"
    /\ sockets' = {}
    /\ global_circuits' = {}
    /\ served' = ServedSet
    /\ mainPc' = IF exc THEN "failed" ELSE "served"
    /\ UNCHANGED <<envVars, clkVars, idx, rpc, exc, chan, props,
                   local, runVars>>

\* --------------------------------------------------- the remote servers
Serving == mainPc = "served"
Update(e, v, t) == [e |-> e, val |-> v, ts |-> t]
Publish(q, e, v, t) == IF e \in subs THEN Append(q, Update(e, v, t)) ELSE q

\* Somebody else changes the remote PV; the server posts an EventAddResponse
\* to every subscriber.
RemoteChange(e, v) ==
    /\ Serving
    /\ ops < MaxOps
    /\ ops' = ops + 1
    /\ rclock' = rclock + 1
    /\ remote' = [remote EXCEPT ![e].val = v, ![e].ts = rclock + 1]
    /\ inbox' = [inbox EXCEPT ![config[e]] = Publish(@, e, v, rclock + 1)]
    /\ UNCHANGED <<envVars, asmVars, local, phase, pvs, subs, callbacks, cb,
                   internal_process, wr, cbRemoteWrites, owed, lastBy>>

\* ------------------------------------------- startup hook, lines 94-107
\* line 99: the hook starts and awaits client_context.get_pvs.
StartupBeginSubscribed(e) ==
    /\ Serving /\ e \in served
    /\ phase[e] = "UNSTARTED"
    /\ phase' = [phase EXCEPT ![e] = "CONNECTING"]
    /\ subs' = subs \cup {e}
    /\ callbacks' = callbacks \cup {e}
    /\ inbox' = [inbox EXCEPT ![config[e]] =
                    Append(@, Update(e, remote[e].val, remote[e].ts))]
    /\ UNCHANGED <<envVars, asmVars, clkVars, local, pvs,
                   cb, internal_process, wr, cbRemoteWrites, owed, lastBy>>

StartupBegin(e) ==
    /\ Serving /\ e \in served
    /\ phase[e] = "UNSTARTED"
    /\ phase' = [phase EXCEPT ![e] = "CONNECTING"]
    /\ UNCHANGED <<envVars, asmVars, clkVars, local, pvs, subs,
                   callbacks, inbox, cb, internal_process, wr, cbRemoteWrites, owed,
                   lastBy>>

\* lines 102-107 (no await in between): subscribe, register the callback,
\* remember the PV.  The server answers a new subscription with the current
\* value.
StartupSubscribe(e) ==
    /\ Serving
    /\ phase[e] = "CONNECTING"
    /\ subs' = subs \cup {e}
    /\ callbacks' = callbacks \cup {e}
    /\ pvs' = pvs \cup {e}
    /\ phase' = [phase EXCEPT ![e] = "SUBSCRIBED"]
    /\ inbox' = [inbox EXCEPT ![config[e]] =
                    Append(@, Update(e, remote[e].val, remote[e].ts))]
    /\ UNCHANGED <<envVars, asmVars, clkVars, local, cb,
                   internal_process, wr, cbRemoteWrites, owed, lastBy>>

\* --------------------------------------------------- the ContextVar, line 14
\* internal_process.get(): the value in the context of the running task.
internal_process_get_global(ctx) == \E c \in Contexts : internal_process[c]
internal_process_get(ctx) == internal_process[ctx]

\* ------------------------------------------------- putter, lines 109-120
\* lines 115-116: the value handed to pv.write.
ForwardValueUntranslated(e, value) == value
ForwardValue(e, value) ==
    IF props[e].is_enum THEN get_raw_value(props[e].enum_strings, value)
                        ELSE value

\* lines 111-118, up to the await of pv.write, in the task context ctx.
putterUnguarded(ctx, e, value) ==
    IF e \notin pvs
      THEN [kind |-> "KeyError", value |-> value]
      ELSE [kind |-> "forward", value |-> ForwardValue(e, value)]

\* (Variant: the handle is not looked up in _pvs.)
putterAnyHandle(ctx, e, value) ==
    IF internal_process_get(ctx)
      THEN [kind |-> "return", value |-> value]
      ELSE [kind |-> "forward", value |-> ForwardValue(e, value)]

putter(ctx, e, value) ==
    IF internal_process_get(ctx)
      THEN [kind |-> "return", value |-> value]
      ELSE IF e \notin pvs
             THEN [kind |-> "KeyError", value |-> value]
             ELSE [kind |-> "forward", value |-> ForwardValue(e, value)]

\* lines 118-120: what the putter does once pv.write returned (acked = TRUE)
\* or raised (acked = FALSE).
putterResumeReturns(acked, value) ==
    IF acked THEN [kind |-> "return", value |-> value]
             ELSE [kind |-> "raise", value |-> value]
putterResumeSwallows(acked, value) ==
    IF acked THEN [kind |-> "SkipWrite", value |-> value]
             ELSE [kind |-> "return", value |-> value]
putterResume(acked, value) ==
    IF acked THEN [kind |-> "SkipWrite", value |-> value]
             ELSE [kind |-> "raise", value |-> value]

\* ChannelData.write after the putter: a returned value is stored with the
\* given timestamp, SkipWrite and an exception leave the store alone.
Store(old, res, ts) ==
    IF res.kind = "return" THEN [val |-> res.value, ts |-> ts] ELSE old

\* ---------------------------------------------- _callback, lines 81-92
InCallback(a) == cb[a].pc \in {"write", "finally"}
MidApply == {cb[a].e : a \in {x \in Addrs : InCallback(x)}}

\* (Variant: pv.write holds the event loop until it is over.)
CbStartLoopHeld(a) ==
    /\ Serving
    /\ cb[a].pc = "idle"
    /\ inbox[a] # <<>>
    /\ Head(inbox[a]).e \in callbacks
    /\ \A w \in Writes : wr[w].pc \notin {"pending", "applied"}
    /\ LET u == Head(inbox[a]) IN
         cb' = [cb EXCEPT ![a] = [pc |-> "write", e |-> u.e, val |-> u.val,
                                  ts |-> u.ts, exit |-> "none"]]
    /\ inbox' = [inbox EXCEPT ![a] = Tail(@)]
    /\ internal_process' = [internal_process EXCEPT ![a] = TRUE]
    /\ UNCHANGED <<envVars, asmVars, clkVars, local, phase, pvs, subs,
                   callbacks, wr, cbRemoteWrites, owed, lastBy>>

\* (Variant: the newest response of the circuit is dispatched first.)
CbStartNewestFirst(a) ==
    /\ Serving
    /\ cb[a].pc = "idle"
    /\ inbox[a] # <<>>
    /\ inbox[a][Len(inbox[a])].e \in callbacks
    /\ LET u == inbox[a][Len(inbox[a])] IN
         cb' = [cb EXCEPT ![a] = [pc |-> "write", e |-> u.e, val |-> u.val,
                                  ts |-> u.ts, exit |-> "none"]]
    /\ inbox' = [inbox EXCEPT ![a] = SubSeq(@, 1, Len(@) - 1)]
    /\ internal_process' = [internal_process EXCEPT ![a] = TRUE]
    /\ UNCHANGED <<envVars, asmVars, clkVars, local, phase, pvs, subs,
                   callbacks, wr, cbRemoteWrites, owed, lastBy>>

\* An EventAddResponse is dispatched to the callback of its subscription, in
\* the circuit's task; line 84 sets the ContextVar.
CbStart(a) ==
    /\ Serving
    /\ cb[a].pc = "idle"
    /\ inbox[a] # <<>>
    /\ Head(inbox[a]).e \in callbacks
    /\ LET u == Head(inbox[a]) IN
         cb' = [cb EXCEPT ![a] = [pc |-> "write", e |-> u.e, val |-> u.val,
                                  ts |-> u.ts, exit |-> "none"]]
    /\ inbox' = [inbox EXCEPT ![a] = Tail(@)]
    /\ internal_process' = [internal_process EXCEPT ![a] = TRUE]
    /\ UNCHANGED <<envVars, asmVars, clkVars, local, phase, pvs, subs,
                   callbacks, wr, cbRemoteWrites, owed, lastBy>>

\* line 89: the timestamp handed to inst.write is the response's.
callback_timestamp_local(response_ts) == LocalTime
callback_timestamp(response_ts) == response_ts

\* lines 86-90: inst.write checks the value against the pvproperty's type,
\* calls the putter in the callback's own context and stores what the putter
\* returns with the timestamp of the response.  A putter that forwards
\* instead issues a remote write and nothing is stored.
CbWrite(a) ==
    /\ Serving
    /\ cb[a].pc = "write"
    /\ LET e == cb[a].e
           ok == Storable(props[e], cb[a].val)
           r == IF ok THEN putter(a, e, Conv(props[e], cb[a].val))
                      ELSE [kind |-> "raise", value |-> cb[a].val]
           new == Store(local[e], r, callback_timestamp(cb[a].ts))
       IN /\ cb' = [cb EXCEPT
                ![a].pc = "finally",
                ![a].exit = CASE r.kind = "return" -> "ok"
                              [] r.kind = "forward" -> "forwarded"
                              [] OTHER -> "raised"]
          /\ cbRemoteWrites' =
                IF r.kind = "forward" /\ cbRemoteWrites < MaxOps
                  THEN cbRemoteWrites + 1 ELSE cbRemoteWrites
          /\ local' = [local EXCEPT ![e] = new]
          /\ lastBy' = [lastBy EXCEPT ![e] = IF r.kind = "return" THEN "callback"
                                                                  ELSE @]
          /\ wr' = [w \in Writes |->
                IF wr[w].e = e /\ r.kind = "return"
                  THEN [wr[w] EXCEPT !.expect = new]
                  ELSE wr[w]]
          /\ owed' = owed \ {[e |-> e, val |-> local'[e].val,
                                ts |-> local'[e].ts]}
    /\ UNCHANGED <<envVars, asmVars, clkVars, phase, pvs, subs,
                   callbacks, inbox, internal_process>>

\* lines 91-92: the finally clause resets the ContextVar on every exit path.
CbFinallyNotOnRaise(a) ==
    /\ Serving
    /\ cb[a].pc = "finally"
    /\ internal_process' = [internal_process EXCEPT
                              ![a] = (cb[a].exit = "raised")]
    /\ cb' = [cb EXCEPT ![a] = [IdleCb EXCEPT !.exit = cb[a].exit]]
    /\ UNCHANGED <<envVars, asmVars, clkVars, local, phase, pvs, subs,
                   callbacks, inbox, wr, cbRemoteWrites, owed, lastBy>>

CbFinally(a) ==
    /\ Serving
    /\ cb[a].pc = "finally"
    /\ internal_process' = [internal_process EXCEPT ![a] = FALSE]
    /\ cb' = [cb EXCEPT ![a] = [IdleCb EXCEPT !.exit = cb[a].exit]]
    /\ UNCHANGED <<envVars, asmVars, clkVars, local, phase, pvs, subs,
                   callbacks, inbox, wr, cbRemoteWrites, owed, lastBy>>

\* ------------------------------------------------------- client writes
ClientValues(e) ==
    IF props[e].is_enum
      THEN {props[e].enum_strings[i] : i \in 1..Len(props[e].enum_strings)}
      ELSE Values

\* The server's auth_write: a read-only pvproperty grants no WRITE access.
auth_write(e) == ~props[e].read_only

\* A client's write request reaches the server, which handles it in a task of
\* its own.  Unless auth_write refuses it,
\* ChannelData.write calls the putter in the task's context.  A returned value
\* is stored with the local time; a forwarded value is sent to the remote PV
\* and the putter awaits the acknowledgement (line 118).
ClientWrite(w, e, v) ==
    /\ Serving /\ e \in served
    /\ ops < MaxOps
    /\ wr[w].pc = "idle"
    /\ \A x \in Writes : x < w => wr[x].pc # "idle"
    /\ v \in ClientValues(e)
    /\ LET r == IF auth_write(e) THEN putter(w, e, v)
                                 ELSE [kind |-> "Forbidden", value |-> v]
       IN /\ wr' = [wr EXCEPT ![w] =
                [IdleWr EXCEPT
                   !.pc = CASE r.kind = "Forbidden" -> "rejected"
                            [] r.kind = "return" -> "done_local"
                            [] r.kind = "forward" -> "pending"
                            [] OTHER -> "keyerror",
                   !.e = e, !.v = v,
                   !.pre = IF r.kind = "forward" THEN local[e] ELSE @,
                   !.expect = local[e],
                   !.sent = IF r.kind = "forward"
                              THEN <<[e |-> e, value |-> r.value]>> ELSE <<>>,
                   !.sawGuard = (r.kind = "return"),
                   !.midApply = IF r.kind = "forward" THEN MidApply ELSE {}]]
          /\ local' = [local EXCEPT ![e] = Store(@, r, LocalTime)]
          /\ lastBy' = [lastBy EXCEPT ![e] = IF r.kind = "return" THEN "putter"
                                                                  ELSE @]
    /\ ops' = ops + 1
    /\ UNCHANGED <<envVars, asmVars, remote, rclock, phase, pvs, subs,
                   callbacks, inbox, cb, internal_process, cbRemoteWrites, owed>>

\* The remote server processes the write: the PV takes the value, gets a new
\* timestamp, and the change is posted to the subscribers.
RemoteApply(w) ==
    /\ Serving
    /\ wr[w].pc = "pending"
    /\ LET e == wr[w].e
           s == wr[w].sent[Len(wr[w].sent)]
       IN /\ "WRITE" \in remote[e].access
          /\ s.value \in Values
          /\ rclock' = rclock + 1
          /\ UNCHANGED ops
          /\ remote' = [remote EXCEPT ![e].val = s.value, ![e].ts = rclock + 1]
          /\ inbox' = [inbox EXCEPT ![config[e]] =
                          Publish(@, e, s.value, rclock + 1)]
          /\ wr' = [wr EXCEPT ![w].pc = "applied", ![w].echoTs = rclock + 1,
                              ![w].midApply = {}]
          /\ owed' = owed \cup {[e |-> e, val |-> wr[w].v, ts |-> rclock + 1]}
    /\ UNCHANGED <<envVars, asmVars, local, phase, pvs, subs, callbacks, cb,
                   internal_process, cbRemoteWrites, lastBy>>

\* pv.write is over: line 118 returns (acked) and line 120 raises SkipWrite, or
\* line 118 raises.  ChannelData.write stores a returned value only.
\* (Variant: a failed pv.write is tried once more.)
ResumeRetries(w, acked) ==
    LET e == wr[w].e
        r == putterResume(acked, wr[w].v)
        again == ~acked /\ Len(wr[w].sent) = 1
    IN /\ local' = [local EXCEPT ![e] = Store(@, r, LocalTime)]
       /\ lastBy' = [lastBy EXCEPT ![e] = IF r.kind = "return" THEN "putter"
                                                               ELSE @]
       /\ wr' = [wr EXCEPT
             ![w].pc = CASE again -> "pending"
                         [] r.kind = "raise" -> "failed"
                         [] r.kind = "SkipWrite" -> "done_skip"
                         [] OTHER -> "done_local",
             ![w].sent = IF again THEN Append(@, @[1]) ELSE @,
             ![w].outcome = IF again THEN "none"
                            ELSE IF acked THEN "ack" ELSE "error",
             ![w].pre = NoStore,
             ![w].midApply = {}]

Resume(w, acked) ==
    LET e == wr[w].e
        r == putterResume(acked, wr[w].v)
    IN /\ local' = [local EXCEPT ![e] = Store(@, r, LocalTime)]
       /\ lastBy' = [lastBy EXCEPT ![e] = IF r.kind = "return" THEN "putter"
                                                               ELSE @]
       /\ wr' = [wr EXCEPT
             ![w].pc = CASE r.kind = "raise" -> "failed"
                         [] r.kind = "SkipWrite" -> "done_skip"
                         [] OTHER -> "done_local",
             ![w].outcome = IF acked THEN "ack" ELSE "error",
             ![w].pre = NoStore,
             ![w].midApply = {}]

\* The acknowledgement of the remote write arrives.
WriteAck(w) ==
    /\ Serving
    /\ wr[w].pc = "applied"
    /\ Resume(w, TRUE)
    /\ UNCHANGED <<envVars, asmVars, clkVars, phase, pvs, subs,
                   callbacks, inbox, cb, internal_process, cbRemoteWrites, owed>>

\* (Variant: a failed write forgets the handle of its PV.)
WriteFailForgetsHandle(w) ==
    /\ Serving
    /\ wr[w].pc \in {"pending", "applied"}
    /\ Resume(w, FALSE)
    /\ pvs' = pvs \ {wr[w].e}
    /\ UNCHANGED <<envVars, asmVars, clkVars, phase, subs,
                   callbacks, inbox, cb, internal_process, cbRemoteWrites, owed>>

\* The remote rejects the write, or no acknowledgement comes within the
\* timeout (whether or not the remote processed the write).
WriteFail(w) ==
    /\ Serving
    /\ wr[w].pc \in {"pending", "applied"}
    /\ Resume(w, FALSE)
    /\ UNCHANGED <<envVars, asmVars, clkVars, phase, pvs, subs,
                   callbacks, inbox, cb, internal_process, cbRemoteWrites, owed>>

\* The process is shut down: every task is cancelled and every connection is
\* torn down.
Shutdown ==
    /\ Serving
    /\ mainPc' = "terminated"
    /\ phase' = [e \in Entries |-> "TERMINATED"]
    /\ inbox' = [a \in Addrs |-> <<>>]
    /\ cb' = [a \in Addrs |-> IdleCb]
    /\ internal_process' = [c \in Contexts |-> FALSE]
    /\ wr' = [w \in Writes |-> IdleWr]
    /\ UNCHANGED <<envVars, clkVars, idx, rpc, exc, chan, sockets,
                   global_circuits, props, served, local, pvs, subs, callbacks,
                   cbRemoteWrites, owed, lastBy>>

Next ==
    \/ \E e \in Entries : MakeChannelOk(e)
    \/ \E e \in Entries : MakeChannelFail(e)
    \/ \E e \in Entries : ReadOk(e)
    \/ \E e \in Entries : ReadFail(e)
    \/ \E e \in Entries : Build(e)
    \/ \E e \in Entries : ResolveFinally(e)
    \/ MakeMirrorType
    \/ MakeMirrorFinally
    \/ \E e \in Entries, v \in Values : RemoteChange(e, v)
    \/ \E e \in Entries : StartupBegin(e)
    \/ \E e \in Entries : StartupSubscribe(e)
    \/ \E a \in Addrs : CbStart(a)
    \/ \E a \in Addrs : CbWrite(a)
    \/ \E a \in Addrs : CbFinally(a)
    \/ \E w \in Writes, e \in Entries, v \in Values \cup Range(Labels) :
          ClientWrite(w, e, v)
    \/ \E w \in Writes : RemoteApply(w)
    \/ \E w \in Writes : WriteAck(w)
    \/ \E w \in Writes : WriteFail(w)
    \/ Shutdown

Spec == Init /\ [][Next]_vars

\* The event loop runs every task that is ready: the circuit tasks dispatch
\* the responses they received and the callbacks run to completion.
LiveSpec ==
    /\ Init
    /\ [][Next]_vars
    /\ \A a \in Addrs : /\ WF_vars(CbStart(a))
                        /\ WF_vars(CbWrite(a))
                        /\ WF_vars(CbFinally(a))

\* ------------------------------------------------------------ properties
Pos(e) == CHOOSE i \in 1..Len(Order) : Order[i] = e
Active(w) == wr[w].pc # "idle"
AllClientValues == Values \cup Range(Labels)
InFlight(e, v, t) ==
    \/ \E i \in 1..Len(inbox[config[e]]) :
          inbox[config[e]][i] = Update(e, v, t)
    \/ /\ cb[config[e]].pc = "write"
       /\ cb[config[e]].e = e /\ cb[config[e]].val = v /\ cb[config[e]].ts = t

\* C1: no feedback loop.  Applying an inbound subscription update to the
\* local PV issues no remote write: no callback ever forwarded, and the only
\* remote writes are those of client write tasks whose putter found the guard
\* clear.
C1_NoFeedbackLoop ==
    /\ cbRemoteWrites = 0
    /\ \A a \in Addrs : cb[a].exit # "forwarded"
    /\ \A w \in Writes : wr[w].sent # <<>> => ~wr[w].sawGuard

\* A callback has stored an inbound update into the local PV.
C1_Witness ==
    \E a \in Addrs : cb[a].exit = "ok" /\ cb[a].pc = "idle" /\ cbRemoteWrites = 0

\* C2: echo.  Once the remote has processed a forwarded write of V and posted
\* (V, T) to the subscription, the local PV eventually holds the value V with
\* the timestamp T (unless the process is shut down first): every echo owed
\* to the local PV is eventually stored in it.
C2_Echo == (owed # {}) ~> (owed = {} \/ ~Serving)

\* An acknowledged write whose value and remote timestamp are in the local PV.
C2_Witness ==
    \E w \in Writes :
        /\ wr[w].pc = "done_skip"
        /\ local[wr[w].e] = [val |-> wr[w].v, ts |-> wr[w].echoTs]

\* C3: read-only enforcement.  A pvproperty is read-only exactly when
\* force_read_only is set or the remote channel lacks WRITE access; a write to
\* a read-only PV is rejected and sends nothing to the remote; a callback
\* still stores inbound updates, value and timestamp, into any PV.
C3_ReadOnlyEnforced ==
    /\ \A e \in Entries : props[e].built =>
          (props[e].read_only <=>
              (force_read_only \/ "WRITE" \notin remote[e].access))
    /\ \A w \in Writes : (Active(w) /\ props[wr[w].e].read_only) =>
          (wr[w].pc = "rejected" /\ wr[w].sent = <<>>)
    /\ \A a \in Addrs : (cb[a].pc = "finally" /\ cb[a].exit = "ok") =>
          local[cb[a].e] = [val |-> Conv(props[cb[a].e], cb[a].val),
                            ts |-> cb[a].ts]

\* A write to a PV that is read-only for lack of remote WRITE access was
\* rejected, and a callback has stored an update into that PV.
C3_Witness ==
    \E w \in Writes :
        /\ wr[w].pc = "rejected"
        /\ ~force_read_only
        /\ lastBy[wr[w].e] = "callback"

\* C4 as stated: when the forwarded write fails, the local value and
\* timestamp are what they were before the attempt.
C4_Original ==
    [][\A w \in Writes :
          (wr[w].pc \in {"pending", "applied"} /\ wr'[w].pc = "failed") =>
              local'[wr[w].e] = wr[w].pre]_vars

\* C4 amended: when the forwarded write times out or is rejected, the
\* client's write fails and the write has stored nothing: the local value and
\* timestamp are those from before the attempt, overwritten only by the
\* inbound updates that callbacks stored in the meantime.
C4_FailureStoresNothing ==
    \A w \in Writes : wr[w].outcome = "error" =>
        /\ wr[w].pc = "failed"
        /\ local[wr[w].e] = wr[w].expect

\* A forwarded write has failed.
C4_Witness ==
    \E w \in Writes :
        /\ wr[w].pc = "failed" /\ wr[w].outcome = "error"
        /\ local[wr[w].e] = wr[w].expect

\* C5 as stated: when the forwarded write is acknowledged, the local value
\* and timestamp are what they were before the write.
C5_Original ==
    [][\A w \in Writes :
          (wr[w].pc = "applied" /\ wr'[w].pc = "done_skip") =>
              local'[wr[w].e] = wr[w].pre]_vars

\* C5 amended: an acknowledged forwarded write ends with SkipWrite and has
\* stored nothing: the local value and timestamp are those from before the
\* write, overwritten only by the inbound updates that callbacks stored in
\* the meantime (the echo of the write may be among them).
C5_SkipWrite ==
    \A w \in Writes : wr[w].outcome = "ack" =>
        /\ wr[w].pc = "done_skip"
        /\ local[wr[w].e] = wr[w].expect

\* An acknowledged write whose echo has not been stored yet: the local PV
\* does not hold the written value.
C5_Witness ==
    \E w \in Writes :
        /\ wr[w].pc = "done_skip"
        /\ InFlight(wr[w].e, wr[w].sent[1].value, wr[w].echoTs)
        /\ local[wr[w].e].val # wr[w].v

\* C6: guard lifetime.  In the context of a circuit task the ContextVar is
\* set exactly while a callback is between line 84 and its finally clause; it
\* is clear once the callback has returned, also when inst.write raised; it is
\* never set in the context of a write task.
C6_GuardLifetime ==
    /\ \A a \in Addrs : internal_process[a] <=> InCallback(a)
    /\ \A w \in Writes : ~internal_process[w]

\* A callback whose inst.write raised has returned, and the guard is clear.
C6_Witness ==
    \E a \in Addrs :
        cb[a].pc = "idle" /\ cb[a].exit = "raised" /\ ~internal_process[a]

\* C7: guard scoping.  The putter of a client write never sees the guard
\* set; a write handled while callbacks are suspended in mid-apply is
\* forwarded (unless it is refused or the PV has no handle yet), never stored
\* locally.
C7_GuardScoping ==
    \A w \in Writes :
        /\ ~wr[w].sawGuard
        /\ wr[w].pc # "done_local"
        /\ (wr[w].midApply # {} /\ wr[w].pc \notin {"rejected", "keyerror"}) =>
              (wr[w].pc = "pending" /\ Len(wr[w].sent) = 1)

\* A write was forwarded while the callbacks of its own PV and of the other PV
\* were both suspended in mid-apply.
C7_Witness ==
    \E w \in Writes :
        /\ wr[w].pc = "pending"
        /\ wr[w].midApply = Entries
        /\ Len(wr[w].sent) = 1

\* C8: enum round trip.  A forwarded write of an enumerated PV sends the code
\* whose label is the written label; a forwarded write of any other PV sends
\* the written value itself.
C8_EnumRoundTrip ==
    \A w \in Writes : wr[w].sent # <<>> =>
        LET p == props[wr[w].e]
            s == wr[w].sent[1]
        IN /\ s.e = wr[w].e
           /\ IF p.is_enum
                THEN /\ HasLabel(p.enum_strings, s.value)
                     /\ LabelOf(p.enum_strings, s.value) = wr[w].v
                ELSE s.value = wr[w].v

\* "ON" was written to an enumerated PV with labels [OFF, ON]: code 1 was sent.
C8_Witness ==
    \E w \in Writes :
        /\ wr[w].sent # <<>>
        /\ props[wr[w].e].is_enum
        /\ wr[w].v = Labels[2]
        /\ wr[w].sent[1].value = 1

\* C9: all or nothing.  PVs are served only when every configured entry was
\* resolved; as soon as one resolution failed nothing is served, make_mirror
\* fails and no startup hook ever runs.
C9_AllOrNothing ==
    /\ mainPc \in {"served", "terminated"} =>
          (~exc /\ served = Entries /\ \A e \in Entries : props[e].built)
    /\ exc => (served = {} /\ mainPc \in {"resolve", "finally", "failed"})
    /\ mainPc = "failed" => exc
    /\ served = {} => \A e \in Entries : phase[e] = "UNSTARTED"

\* make_mirror failed although one entry had been resolved.
C9_Witness ==
    /\ mainPc = "failed"
    /\ \E e \in Entries : props[e].built
    /\ served = {}

\* C10: resolution leaves no connection behind.  Once the resolution of an
\* entry is over its channel is not connected any more, and once make_mirror
\* has returned or failed csc.sockets and csc.global_circuits are empty.
C10_NoLeak ==
    /\ \A e \in Entries :
          (Pos(e) < idx \/ mainPc # "resolve") => chan[e] # "CONNECTED"
    /\ mainPc \in {"served", "failed", "terminated"} =>
          (sockets = {} /\ global_circuits = {})

\* A resolution failed after its channel was connected: the channel was
\* cleared and the caches are empty.
C10_Witness ==
    /\ mainPc = "failed"
    /\ \E e \in Entries : chan[e] = "MUST_CLOSE" /\ ~props[e].built
    /\ sockets = {}
    /\ global_circuits = {}

\* C11: single writer.  While the mirror is serving, every change of a local
\* PV's value or timestamp is the store of a callback applying an inbound
\* update to that PV; no step of a write task that forwarded (the forwarding
\* itself, the acknowledgement, the failure) changes the local store, and the
\* putter is never the last to have stored.
C11_SingleWriter ==
    /\ [](\A e \in Entries : lastBy[e] # "putter")
    /\ [][/\ \A e \in Entries :
              (Serving /\ local'[e] # local[e]) =>
                 \E a \in Addrs :
                    /\ cb[a].pc = "write" /\ cb[a].e = e
                    /\ cb'[a].pc = "finally" /\ cb'[a].exit = "ok"
          /\ \A w \in Writes :
              (wr'[w].pc # wr[w].pc /\ wr'[w].sent # <<>>) => local' = local
         ]_vars

\* A forwarded write failed after the remote had processed it: the written
\* value is in the local PV, stored there by the callback.
C11_Witness ==
    \E w \in Writes :
        /\ wr[w].pc = "failed" /\ wr[w].sent # <<>>
        /\ lastBy[wr[w].e] = "callback"
        /\ local[wr[w].e] = [val |-> wr[w].v, ts |-> wr[w].echoTs]

\* Position of a subscription bridge state in the order of its life.
Rank(p) == CASE p = "UNSTARTED" -> 0
             [] p = "CONNECTING" -> 1
             [] p = "SUBSCRIBED" -> 2
             [] OTHER -> 3
\* An inbound update of e is waiting in the circuit or is being applied.
Delivered(e) ==
    \/ \E i \in 1..Len(inbox[config[e]]) : inbox[config[e]][i].e = e
    \/ InCallback(config[e]) /\ cb[config[e]].e = e

\* C12: subscription bridge ordering.  An entry goes from UNSTARTED to
\* CONNECTING to SUBSCRIBED, one step at a time, and to TERMINATED at
\* shutdown, never backwards.  A subscription exists only once the await of
\* get_pvs is over (the entry has left CONNECTING), a callback is registered
\* only on an existing subscription, the handle is kept only with its callback
\* registered, and no update is delivered to or applied by a callback, nor
\* stored in the local PV, before the entry is SUBSCRIBED.
C12_BridgeOrdering ==
    /\ [](\A e \in Entries :
             /\ e \in subs => Rank(phase[e]) >= 2
             /\ e \in callbacks => e \in subs
             /\ e \in pvs => e \in callbacks
             /\ Rank(phase[e]) = 2 => e \in callbacks
             /\ (Delivered(e) \/ lastBy[e] = "callback") => Rank(phase[e]) >= 2)
    /\ [][\A e \in Entries :
             \/ phase'[e] = phase[e]
             \/ Rank(phase[e]) < 2 /\ Rank(phase'[e]) = Rank(phase[e]) + 1
             \/ phase'[e] = "TERMINATED"]_vars

\* One entry is SUBSCRIBED and its callback has stored an update while the
\* other entry is still CONNECTING with its local PV untouched.
C12_Witness ==
    \E e \in Entries, f \in Entries :
        /\ phase[e] = "SUBSCRIBED" /\ lastBy[e] = "callback"
        /\ phase[f] = "CONNECTING" /\ lastBy[f] = "init"
        /\ ~Delivered(f)

\* C13: timestamp preserved verbatim.  Whenever a callback applies an inbound
\* update (V, T), the local PV's value becomes V (its label, for an
\* enumerated PV) and the local timestamp becomes exactly T, which is a
\* timestamp of the remote and never the local time; an update whose value
\* the PV can hold is always applied.
C13_TimestampVerbatim ==
    [][\A a \in Addrs :
          (cb[a].pc = "write" /\ cb'[a].pc = "finally") =>
             LET e == cb[a].e IN
               /\ Storable(props[e], cb[a].val) <=> cb'[a].exit = "ok"
               /\ cb'[a].exit = "ok" =>
                     /\ local'[e].val = Conv(props[e], cb[a].val)
                     /\ local'[e].ts = cb[a].ts
                     /\ local'[e].ts # LocalTime
                     /\ local'[e].ts \in 0..rclock]_vars

\* The callback of an enumerated PV has just stored an update that the remote
\* published after the subscription began: the label of the new code with the
\* remote's timestamp, replacing a value with an older timestamp.
C13_Witness ==
    \E a \in Addrs :
        /\ cb[a].pc = "finally" /\ cb[a].exit = "ok"
        /\ props[cb[a].e].is_enum
        /\ cb[a].ts >= 1 /\ cb[a].val = 1
        /\ local[cb[a].e] = [val |-> Labels[2], ts |-> cb[a].ts]

Waiting(w) == wr[w].pc \in {"pending", "applied"}

\* C14: write blocking is per request.  A forwarded write is not complete
\* before pv.write is over: it waits exactly as long as there is neither an
\* acknowledgement nor a failure (timeout or rejection), and is complete
\* afterwards.  While a write waits, nothing else waits for it: a delivered
\* update is dispatched to its callback, a running callback stores and
\* returns, another waiting write can be acknowledged or fail, and a client
\* write to any entry is handled.
C14_PerRequestBlocking ==
    /\ \A w \in Writes : wr[w].sent # <<>> =>
          /\ Waiting(w) <=> wr[w].outcome = "none"
          /\ ~Waiting(w) <=> wr[w].pc \in {"done_skip", "failed"}
    /\ (\E w \in Writes : Waiting(w)) =>
          /\ \A a \in Addrs :
                /\ (cb[a].pc = "idle" /\ inbox[a] # <<>>) => ENABLED CbStart(a)
                /\ cb[a].pc = "write" => ENABLED CbWrite(a)
                /\ cb[a].pc = "finally" => ENABLED CbFinally(a)
          /\ \A x \in Writes :
                /\ Waiting(x) => ENABLED WriteFail(x)
                /\ wr[x].pc = "applied" => ENABLED WriteAck(x)
          /\ ops < MaxOps =>
                \A e \in Entries :
                    ENABLED (\E x \in Writes, v \in AllClientValues :
                                ClientWrite(x, e, v))

\* The first write is still waiting for the remote; meanwhile a second write,
\* to the other entry, was forwarded and acknowledged, and the callback of
\* that entry has stored its echo.
C14_Witness ==
    \E w \in Writes, x \in Writes :
        /\ w < x /\ wr[w].e # wr[x].e
        /\ wr[w].pc = "pending"
        /\ wr[x].pc = "done_skip"
        /\ lastBy[wr[x].e] = "callback"
        /\ local[wr[x].e] = [val |-> wr[x].v, ts |-> wr[x].echoTs]

Failed(w) == wr[w].pc = "failed"

\* C15: write failure is non-fatal.  After a forwarded write has failed the
\* mirror is still serving, the entry is still SUBSCRIBED with its handle, its
\* subscription and its callback, and the guard is clear in the context of the
\* failed write; an update delivered later is dispatched and, when the PV can
\* hold its value, stored; and a later client write to this or any other
\* entry is handled, and forwarded to the remote unless the PV is read-only
\* or has no handle yet.
C15_FailureNonFatal ==
    /\ [](\A w \in Writes : Failed(w) =>
             LET e == wr[w].e IN
               /\ Serving
               /\ phase[e] = "SUBSCRIBED"
               /\ e \in pvs /\ e \in subs /\ e \in callbacks
               /\ ~internal_process[w]
               /\ \A a \in Addrs : internal_process[a] <=> InCallback(a)
               /\ \A a \in Addrs :
                     (cb[a].pc = "idle" /\ inbox[a] # <<>>) => ENABLED CbStart(a)
               /\ ops < MaxOps =>
                     \A f \in Entries :
                         ENABLED (\E x \in Writes, v \in AllClientValues :
                                     ClientWrite(x, f, v)))
    /\ [][(\E w \in Writes : Failed(w)) =>
             /\ \A a \in Addrs :
                   (cb[a].pc = "write" /\ cb'[a].pc = "finally"
                      /\ Storable(props[cb[a].e], cb[a].val)) =>
                         local'[cb[a].e] =
                             [val |-> Conv(props[cb[a].e], cb[a].val),
                              ts |-> cb[a].ts]
             /\ \A x \in Writes :
                   (wr[x].pc = "idle" /\ wr'[x].pc # "idle") =>
                      LET f == wr'[x].e IN
                        IF auth_write(f) /\ f \in pvs
                          THEN /\ wr'[x].pc = "pending"
                               /\ wr'[x].sent =
                                     <<[e |-> f, value |-> ForwardValue(f, wr'[x].v)]>>
                          ELSE wr'[x].sent = <<>>]_vars

\* A forwarded write failed; a later write to the same entry was forwarded,
\* the remote processed it, and the callback has stored its echo.
C15_Witness ==
    \E w \in Writes, x \in Writes :
        /\ w < x /\ wr[w].e = wr[x].e
        /\ Failed(w) /\ wr[w].sent # <<>>
        /\ wr[x].pc = "applied"
        /\ phase[wr[x].e] = "SUBSCRIBED"
        /\ lastBy[wr[x].e] = "callback"
        /\ local[wr[x].e] = [val |-> wr[x].v, ts |-> wr[x].echoTs]

\* C16: a write before the handle is registered.  A client write that reaches
\* the putter while the entry is UNSTARTED or CONNECTING (its handle is not
\* in _pvs yet) fails at the lookup: the step issues no remote write and
\* changes neither the local store nor the remote PV, and the failed request
\* never issues one later.  A remote write is issued only by a step taken
\* with the handle registered and the entry SUBSCRIBED.
C16_NoHandleNoWrite ==
    /\ [](\A w \in Writes :
             /\ wr[w].pc = "keyerror" =>
                   (wr[w].sent = <<>> /\ wr[w].outcome = "none")
             /\ wr[w].sent # <<>> => wr[w].e \in pvs)
    /\ [][\A w \in Writes :
             (wr[w].pc = "idle" /\ wr'[w].pc # "idle") =>
                LET e == wr'[w].e IN
                  /\ (auth_write(e) /\ Rank(phase[e]) < 2) =>
                        /\ e \notin pvs
                        /\ wr'[w].pc = "keyerror"
                        /\ wr'[w].sent = <<>>
                        /\ local' = local
                        /\ remote' = remote /\ inbox' = inbox
                  /\ wr'[w].sent # <<>> =>
                        (e \in pvs /\ phase[e] = "SUBSCRIBED")]_vars

\* A write to a writable entry that was still CONNECTING has failed; the
\* local PV holds what it held since the mirror was assembled.
C16_Witness ==
    \E w \in Writes :
        /\ wr[w].pc = "keyerror"
        /\ ~props[wr[w].e].read_only
        /\ phase[wr[w].e] = "CONNECTING"
        /\ lastBy[wr[w].e] = "init"
        /\ local[wr[w].e].ts = LocalTime

\* Nothing is on its way to the local PV of a subscribed entry.
Quiet(e) == phase[e] = "SUBSCRIBED" /\ ~Delivered(e)
\* What the local PV shows when it mirrors the remote PV.
Mirrored(e) == [val |-> Conv(props[e], remote[e].val), ts |-> remote[e].ts]

\* C17: convergence to the remote's latest value.  The updates of an entry
\* wait in its circuit in the order the remote published them (increasing
\* timestamps, the newest being the remote's present value), each one applied
\* is newer than what a callback stored before, and whenever no update of a
\* subscribed entry is waiting or being applied and the local PV can hold the
\* remote's present value, the local value and timestamp are the remote's,
\* whatever client writes were handled in between.
C17_Converges ==
    /\ [](\A e \in Entries :
             /\ (Quiet(e) /\ Storable(props[e], remote[e].val)) =>
                   local[e] = Mirrored(e)
             /\ LET q == inbox[config[e]] IN
                   /\ \A i \in 1..Len(q), j \in 1..Len(q) :
                         (i < j /\ q[i].e = e /\ q[j].e = e) => q[i].ts < q[j].ts
                   /\ \A i \in 1..Len(q) :
                         (q[i].e = e /\ InCallback(config[e])
                            /\ cb[config[e]].e = e) => cb[config[e]].ts < q[i].ts
                   /\ \A i \in 1..Len(q) :
                         (q[i].e = e /\ \A j \in (i + 1)..Len(q) : q[j].e # e) =>
                            (q[i].val = remote[e].val /\ q[i].ts = remote[e].ts))
    /\ [][\A a \in Addrs :
             (cb[a].pc = "write" /\ cb'[a].pc = "finally"
                /\ cb'[a].exit = "ok" /\ lastBy[cb[a].e] = "callback") =>
                   local'[cb[a].e].ts > local[cb[a].e].ts]_vars

\* A client write to an entry was forwarded and acknowledged, somebody else
\* changed the remote PV afterwards, every update has been applied, and the
\* local PV shows the remote's last value and timestamp, not the written one.
C17_Witness ==
    \E w \in Writes :
        LET e == wr[w].e IN
          /\ wr[w].pc = "done_skip"
          /\ Quiet(e)
          /\ Storable(props[e], remote[e].val)
          /\ remote[e].ts = 2 /\ wr[w].echoTs = 1
          /\ local[e] = Mirrored(e)
          /\ local[e].val # wr[w].v

Forwarded(w) == wr[w].pc \in {"pending", "applied", "done_skip", "failed"}

\* C18: one remote write per client write.  A client write handled with the
\* guard clear for a writable, SUBSCRIBED entry issues one remote write, of
\* the translated value to the remote PV of that entry; the request never
\* issues another, whether it is acknowledged or fails, and the remote
\* processes it at most once, changing that PV only.  No write that was
\* refused or stored locally issued any, and callbacks issue none.
C18_OneRemoteWrite ==
    /\ [](/\ \A w \in Writes :
               /\ Forwarded(w) <=> wr[w].sent # <<>>
               /\ Forwarded(w) =>
                     /\ Len(wr[w].sent) = 1
                     /\ wr[w].sent[1] =
                           [e |-> wr[w].e, value |-> ForwardValue(wr[w].e, wr[w].v)]
           /\ cbRemoteWrites = 0)
    /\ [][\A w \in Writes :
             /\ (wr[w].pc = "idle" /\ wr'[w].pc # "idle"
                    /\ auth_write(wr'[w].e) /\ phase[wr'[w].e] = "SUBSCRIBED"
                    /\ ~internal_process_get(w)) => Len(wr'[w].sent) = 1
             /\ (Forwarded(w) /\ wr'[w].pc # "idle") => wr'[w].sent = wr[w].sent
             /\ wr'[w].pc = "applied" => wr[w].pc \in {"pending", "applied"}
             /\ (wr[w].pc = "pending" /\ wr'[w].pc = "applied") =>
                    /\ remote'[wr[w].e].val = wr[w].sent[1].value
                    /\ \A f \in Entries \ {wr[w].e} : remote'[f] = remote[f]]_vars

\* Two client writes were forwarded: one was acknowledged, the other failed
\* before the remote processed it; each issued one remote write and the
\* remote PVs changed once in all.
C18_Witness ==
    \E w \in Writes, x \in Writes :
        /\ wr[w].pc = "done_skip" /\ Len(wr[w].sent) = 1
        /\ wr[x].pc = "failed" /\ Len(wr[x].sent) = 1
        /\ wr[x].echoTs = 0
        /\ rclock = 1
====
